---- MODULE Spec2Model ----
(***************************************************************************)
(* A model of the CHIP-8 emulator of src/chip8.c: the machine vm_t, the    *)
(* program load init_vm, the input handler handle_input, the interpreter   *)
(* run_instruction, update_timers and the loop of main.                    *)
(***************************************************************************)
EXTENDS Integers, Sequences, FiniteSets, TLC

(* ------------------------------------------------------------------ *)
(* Program constants                                                   *)
(* ------------------------------------------------------------------ *)
WIDTH == 64
HEIGHT == 32
RamSize == 4096
DisplaySize == WIDTH * HEIGHT
StackSize == 12
NumRegs == 16
NumKeys == 16
entry_point == 512
clock_rate == 700
FrameRate == 60
Byte == 256
Word == 65536

\* emulator_state_t: the enumerators in declaration order, so that a zeroed
\* machine (memset) holds QUIT.
QUIT == 0
RUNNING == 1
PAUSED == 2

\* vm->stack_ptr and vm->rom_name after memset(vm, 0, ...): null pointers.
NullPtr == 0 - 1
NullName == "NULL"
\* argv[1]
ArgvRom == "argv1"

(* ------------------------------------------------------------------ *)
(* Bounds of the model                                                 *)
(* ------------------------------------------------------------------ *)
\* events handle_input polls in one call, at most
MaxEvents == 3
\* how many of the 16 keys of the key table the input events are drawn from
MaxKeys == 2

(* ------------------------------------------------------------------ *)
(* Bit operations on 8-bit and 16-bit values                           *)
(* ------------------------------------------------------------------ *)
Max(a, b) == IF a >= b THEN a ELSE b
Min(a, b) == IF a <= b THEN a ELSE b

Pow2(k) == CASE k = 0 -> 1 [] k = 1 -> 2 [] k = 2 -> 4 [] k = 3 -> 8
             [] k = 4 -> 16 [] k = 5 -> 32 [] k = 6 -> 64 [] k = 7 -> 128
             [] OTHER -> 256

\* bit k of a
Bit(a, k) == (a \div Pow2(k)) % 2

BitAnd(a, b) == LET s == {k \in 0..7 : Bit(a, k) = 1 /\ Bit(b, k) = 1}
                    f[k \in 0..8] == IF k = 8 THEN 0
                                     ELSE (IF k \in s THEN Pow2(k) ELSE 0) + f[k + 1]
                IN f[0]

BitOr(a, b) == LET s == {k \in 0..7 : Bit(a, k) = 1 \/ Bit(b, k) = 1}
                   f[k \in 0..8] == IF k = 8 THEN 0
                                    ELSE (IF k \in s THEN Pow2(k) ELSE 0) + f[k + 1]
               IN f[0]

BitXor(a, b) == LET s == {k \in 0..7 : Bit(a, k) # Bit(b, k)}
                    f[k \in 0..8] == IF k = 8 THEN 0
                                     ELSE (IF k \in s THEN Pow2(k) ELSE 0) + f[k + 1]
                IN f[0]

(* ------------------------------------------------------------------ *)
(* The font and the ROM files                                          *)
(* ------------------------------------------------------------------ *)
font == << 240, 144, 144, 144, 240,    \* 0
           32,  96,  32,  32, 112,     \* 1
           240, 16, 240, 128, 240,     \* 2
           240, 16, 240,  16, 240,     \* 3
           144, 144, 240, 16,  16,     \* 4
           240, 128, 240, 16, 240,     \* 5
           240, 128, 240, 144, 240,    \* 6
           240, 16,  32,  64,  64,     \* 7
           240, 144, 240, 144, 240,    \* 8
           240, 144, 240, 16, 240,     \* 9
           240, 144, 240, 144, 144,    \* A
           224, 144, 224, 144, 224,    \* B
           240, 128, 128, 128, 240,    \* C
           224, 144, 144, 144, 224,    \* D
           240, 128, 240, 128, 240,    \* E
           240, 128, 240, 128, 128 >>  \* F

\* The largest ROM init_vm accepts: sizeof vm->ram - entry_point.
max_size == RamSize - entry_point

\* A program that uses the timers, memory stores, the display, the key wait
\* and a subroutine:
\*   200 6003  V0 = 3          202 F015  delay_timer = V0
\*   204 F018  sound_timer = V0  206 A300  I = 0x300
\*   208 F033  BCD of V0 at I   20A F155  store V0..V1 at I
\*   20C D011  draw 1 row at (V0, V1)
\*   20E F30A  wait for a key, into V3
\*   210 2214  call 0x214       212 1212  jump to itself
\*   214 00EE  return
DemoRom == << 96, 3,   240, 21,  240, 24,  163, 0,  240, 51,  241, 85,
              208, 17, 243, 10,  34, 20,   18, 18,  0, 238 >>

\* 200 1200: a jump to itself, padded to len bytes; the last byte is 0xFF.
PaddedRom(len) == [k \in 1..len |-> IF k = 1 THEN 18
                                    ELSE IF k = len THEN 255 ELSE 0]

\* What the file system can hold under the ROM's name: an unreadable (or
\* missing) file, or a readable file with these bytes.
RomFiles == << [readable |-> FALSE, data |-> << >>],
               [readable |-> TRUE,  data |-> DemoRom],
               [readable |-> TRUE,  data |-> << >>],
               [readable |-> TRUE,  data |-> PaddedRom(max_size)],
               [readable |-> TRUE,  data |-> PaddedRom(max_size + 1)] >>

FileIds == DOMAIN RomFiles

(* ------------------------------------------------------------------ *)
(* init_vm                                                             *)
(* ------------------------------------------------------------------ *)
\* Representation.  vm->ram is kept as the function from the addresses that
\* hold a non-zero byte to that byte (every other address of 0..4095 holds 0),
\* and vm->display as the set of the indices of the cells that are true.
\* RamAt and PixelAt give the arrays' elements.
RamAt(ram, a) == IF a \in DOMAIN ram THEN ram[a] ELSE 0
PixelAt(display, p) == p \in display

\* ram[a] = val
RamPut(ram, a, val) ==
    IF val = 0 THEN [b \in DOMAIN ram \ {a} |-> ram[b]]
    ELSE [b \in DOMAIN ram \cup {a} |-> IF b = a THEN val ELSE ram[b]]

ZeroIns == [opcode |-> 0, nnn |-> 0, nn |-> 0, n |-> 0, x |-> 0, y |-> 0]

\* memset(vm, 0, sizeof(vm_t))
ZeroVm == [ state         |-> 0,
            ram           |-> [a \in {} |-> 0],
            display       |-> {},
            stack         |-> [s \in 0..(StackSize - 1) |-> 0],
            stack_ptr     |-> NullPtr,
            v             |-> [r \in 0..(NumRegs - 1) |-> 0],
            i             |-> 0,
            pc            |-> 0,
            delay_timer   |-> 0,
            sound_timer   |-> 0,
            keypad        |-> [k \in 0..(NumKeys - 1) |-> FALSE],
            rom_name      |-> NullName,
            ins           |-> ZeroIns,
            should_redraw |-> FALSE ]

\* memcpy(&vm->ram[at], bytes, Len(bytes))
MemCopy(ram, at, bytes) ==
    LET dst  == at..(at + Len(bytes) - 1)
        set  == {a \in dst : bytes[a - at + 1] # 0}
    IN  [a \in (DOMAIN ram \ dst) \cup set |->
            IF a \in dst THEN bytes[a - at + 1] ELSE ram[a]]

\* fopen succeeds; rom_size > max_size is the only size test.
RomFits(file) == ~(Len(file.data) > max_size)

\* fread(&vm->ram[entry_point], rom_size, 1, rom) returns the number of whole
\* items read: 1 when the rom_size bytes were read, and 0 when rom_size is 0.
FreadItems(file) == IF Len(file.data) = 0 THEN 0 ELSE 1

\* init_vm's return value for this file under this name
InitOk(file, name) ==
    /\ name # NullName
    /\ file.readable
    /\ RomFits(file)
    /\ FreadItems(file) = 1

\* the machine init_vm leaves, on success and on each failure path
InitVm(file, name) ==
    LET zeroed == [ZeroVm EXCEPT !.ram = MemCopy(ZeroVm.ram, 0, font)]
    IN  IF name = NullName \/ ~file.readable THEN zeroed
        ELSE IF ~RomFits(file) THEN zeroed
        ELSE IF FreadItems(file) # 1 THEN zeroed
        ELSE [zeroed EXCEPT !.ram = MemCopy(zeroed.ram, entry_point, file.data),
                            !.state = RUNNING,
                            !.pc = entry_point,
                            !.rom_name = name,
                            !.stack_ptr = 0]

(* ------------------------------------------------------------------ *)
(* run_instruction                                                     *)
(* ------------------------------------------------------------------ *)
\* What an access outside an array, or through a null or out-of-range stack
\* pointer, can produce: the process may die (crash); otherwise a read yields
\* some byte, a write lands outside the modelled fields, and the stack
\* pointer is left somewhere in the stack.  rnd is the byte rand() returns.
GarbageBytes == {0, 255}
RandBytes == {0, 165, 255}
StackPtrs == {0, StackSize}
Oracles == [crash : BOOLEAN, byte : GarbageBytes, ptr : StackPtrs, rnd : RandBytes]
NoOracle == [crash |-> FALSE, byte |-> 0, ptr |-> 0, rnd |-> 0]

\* vm->ins as run_instruction fills it from the opcode
Decode(opcode) == [ opcode |-> opcode,
                    nnn    |-> opcode % 4096,
                    nn     |-> opcode % 256,
                    n      |-> opcode % 16,
                    x      |-> (opcode \div 256) % 16,
                    y      |-> (opcode \div 16) % 16 ]

\* vm->ram[a] as an rvalue
RamRead(m, a, o) == IF a >= 0 /\ a < RamSize THEN RamAt(m.ram, a) ELSE o.byte

\* vm->ram[a] = val
RamWrite(ram, a, val) == IF a >= 0 /\ a < RamSize THEN RamPut(ram, a, val) ELSE ram

\* vm->keypad[k] as an rvalue
KeyRead(m, k, o) == IF k < NumKeys THEN m.keypad[k] ELSE o.byte # 0

\* (vm->ram[vm->pc] << 8) | vm->ram[vm->pc + 1]
Fetch(m, o) == RamRead(m, m.pc, o) * 256 + RamRead(m, m.pc + 1, o)

\* an inner loop of DXYN without the break at the right screen edge
RECURSIVE DrawBits_NoRightEdge(_, _, _, _, _)
DrawBits_NoRightEdge(acc, data, j, x, y) ==
    LET bit   == Bit(data, j) = 1
        idx   == y * WIDTH + x
        pixel == PixelAt(acc.display, idx)
        acc1  == [ display |-> IF pixel # bit THEN acc.display \cup {idx}
                               ELSE acc.display \ {idx},
                   vf      |-> IF bit /\ pixel THEN 1 ELSE acc.vf ]
    IN  IF j = 0 THEN acc1
        ELSE DrawBits_NoRightEdge(acc1, data, j - 1, x + 1, y)

\* an inner loop of DXYN that never sets the collision flag
RECURSIVE DrawBits_NoCollision(_, _, _, _, _)
DrawBits_NoCollision(acc, data, j, x, y) ==
    LET bit   == Bit(data, j) = 1
        idx   == y * WIDTH + x
        pixel == PixelAt(acc.display, idx)
        acc1  == [ display |-> IF pixel # bit THEN acc.display \cup {idx}
                               ELSE acc.display \ {idx},
                   vf      |-> acc.vf ]
    IN  IF x + 1 >= WIDTH \/ j = 0 THEN acc1
        ELSE DrawBits_NoCollision(acc1, data, j - 1, x + 1, y)

\* an inner loop of DXYN that sets the pixels of the sprite instead of
\* toggling them
RECURSIVE DrawBits_Or(_, _, _, _, _)
DrawBits_Or(acc, data, j, x, y) ==
    LET bit   == Bit(data, j) = 1
        idx   == y * WIDTH + x
        pixel == PixelAt(acc.display, idx)
        acc1  == [ display |-> IF pixel \/ bit THEN acc.display \cup {idx}
                               ELSE acc.display \ {idx},
                   vf      |-> IF bit /\ pixel THEN 1 ELSE acc.vf ]
    IN  IF x + 1 >= WIDTH \/ j = 0 THEN acc1
        ELSE DrawBits_Or(acc1, data, j - 1, x + 1, y)

\* the inner loop of DXYN: the bits 7..0 of one sprite row, from column x on
RECURSIVE DrawBits(_, _, _, _, _)
DrawBits(acc, data, j, x, y) ==
    LET bit   == Bit(data, j) = 1
        idx   == y * WIDTH + x
        pixel == PixelAt(acc.display, idx)
        acc1  == [ display |-> IF pixel # bit THEN acc.display \cup {idx}
                               ELSE acc.display \ {idx},
                   vf      |-> IF bit /\ pixel THEN 1 ELSE acc.vf ]
    IN  IF x + 1 >= WIDTH \/ j = 0 THEN acc1
        ELSE DrawBits(acc1, data, j - 1, x + 1, y)

\* the outer loop of DXYN: the sprite rows i..n-1, from row y on
\* (acc1 # acc1 is false: it makes TLC compute a row before the next one)
RECURSIVE DrawRows(_, _, _, _, _, _)
DrawRows(acc, m, o, i, og_x, y) ==
    IF ~(i < m.ins.n) THEN acc
    ELSE LET acc1 == DrawBits(acc, RamRead(m, m.i + i, o), 7, og_x, y)
         IN  IF y + 1 >= HEIGHT \/ acc1 # acc1 THEN acc1
             ELSE DrawRows(acc1, m, o, i + 1, og_x, y + 1)

\* a DXYN that does not reset VF before it draws
DrawSprite_KeepsFlag(m, o) ==
    LET x   == m.v[m.ins.x] % WIDTH
        y   == m.v[m.ins.y] % HEIGHT
        res == DrawRows([display |-> m.display, vf |-> m.v[15]], m, o, 0, x, y)
    IN  [m EXCEPT !.display = res.display,
                  !.v = [m.v EXCEPT ![15] = res.vf],
                  !.should_redraw = TRUE]

\* DXYN on the machine m, whose ins is the decoded instruction
DrawSprite(m, o) ==
    LET x   == m.v[m.ins.x] % WIDTH
        y   == m.v[m.ins.y] % HEIGHT
        res == DrawRows([display |-> m.display, vf |-> 0], m, o, 0, x, y)
    IN  [m EXCEPT !.display = res.display,
                  !.v = [m.v EXCEPT ![15] = res.vf],
                  !.should_redraw = TRUE]

\* FX0A: the first pressed key, NumKeys when there is none
RECURSIVE FirstKey(_, _)
FirstKey(keypad, k) ==
    IF k >= NumKeys THEN NumKeys
    ELSE IF keypad[k] THEN k ELSE FirstKey(keypad, k + 1)

\* FX55: the loop for (i = k; i <= x; i++) vm->ram[vm->i + i] = vm->v[i]
RECURSIVE StoreRegs(_, _, _)
StoreRegs(m, ram, k) ==
    IF k > m.ins.x THEN ram
    ELSE StoreRegs(m, RamWrite(ram, m.i + k, m.v[k]), k + 1)

\* an FX65 loop that stops before V[x]: for (i = k; i < x; i++)
RECURSIVE LoadRegs_Exclusive(_, _, _, _)
LoadRegs_Exclusive(m, o, v, k) ==
    IF k >= m.ins.x THEN v
    ELSE LoadRegs_Exclusive(m, o, [v EXCEPT ![k] = RamRead(m, m.i + k, o)], k + 1)

\* FX65: the loop for (i = k; i <= x; i++) vm->v[i] = vm->ram[vm->i + i]
RECURSIVE LoadRegs(_, _, _, _)
LoadRegs(m, o, v, k) ==
    IF k > m.ins.x THEN v
    ELSE LoadRegs(m, o, [v EXCEPT ![k] = RamRead(m, m.i + k, o)], k + 1)

\* case 0x0 of the dispatch
Exec0(m, o) ==
    IF m.ins.nn = 224
    THEN [m EXCEPT !.display = {},
                   !.should_redraw = TRUE]
    ELSE IF m.ins.nn = 238
    THEN IF m.stack_ptr >= 1 /\ m.stack_ptr <= StackSize
         THEN [m EXCEPT !.stack_ptr = m.stack_ptr - 1,
                        !.pc = m.stack[m.stack_ptr - 1]]
         ELSE [m EXCEPT !.stack_ptr = IF m.stack_ptr = NullPtr THEN NullPtr ELSE o.ptr,
                        !.pc = o.byte * 256 + o.byte]
    ELSE [m EXCEPT !.pc = m.ins.nnn]

\* a 2NNN that pushes the address of the call itself, not of what follows it
Exec2_PushesCallAddress(m, o) ==
    IF m.stack_ptr >= 0 /\ m.stack_ptr < StackSize
    THEN [m EXCEPT !.stack = [m.stack EXCEPT ![m.stack_ptr] = (m.pc - 2) % Word],
                   !.stack_ptr = m.stack_ptr + 1,
                   !.pc = m.ins.nnn]
    ELSE [m EXCEPT !.stack_ptr = IF m.stack_ptr = NullPtr THEN NullPtr ELSE o.ptr,
                   !.pc = m.ins.nnn]

\* case 0x2 of the dispatch
Exec2(m, o) ==
    IF m.stack_ptr >= 0 /\ m.stack_ptr < StackSize
    THEN [m EXCEPT !.stack = [m.stack EXCEPT ![m.stack_ptr] = m.pc],
                   !.stack_ptr = m.stack_ptr + 1,
                   !.pc = m.ins.nnn]
    ELSE [m EXCEPT !.stack_ptr = IF m.stack_ptr = NullPtr THEN NullPtr ELSE o.ptr,
                   !.pc = m.ins.nnn]

\* shifts that take their operand from V[y], as the COSMAC VIP did
ShiftSource_Vy(vx, vy) == vy

\* the operand of 8XY6 and 8XYE: vm->v[vm->ins.x]
ShiftSource(vx, vy) == vx

\* an 8XY5/8XY7 flag that is also set when the two operands are equal
NoBorrow_OrEqual(a, b) == a >= b

\* carry = vm->v[x] > vm->v[y] of 8XY5, vm->v[y] > vm->v[x] of 8XY7
NoBorrow(a, b) == a > b

\* case 0x8 of the dispatch
Exec8(m) ==
    LET x == m.ins.x
        y == m.ins.y
        vx == m.v[x]
        vy == m.v[y]
        SetX(val) == [m.v EXCEPT ![x] = val]
        WithFlag(val, carry) == [SetX(val) EXCEPT ![15] = IF carry THEN 1 ELSE 0]
    IN  CASE m.ins.n = 0 -> [m EXCEPT !.v = SetX(vy)]
          [] m.ins.n = 1 -> [m EXCEPT !.v = SetX(BitOr(vx, vy))]
          [] m.ins.n = 2 -> [m EXCEPT !.v = SetX(BitAnd(vx, vy))]
          [] m.ins.n = 3 -> [m EXCEPT !.v = SetX(BitXor(vx, vy))]
          [] m.ins.n = 4 -> LET v1 == SetX((vx + vy) % Byte)
                            IN  [m EXCEPT !.v = [v1 EXCEPT ![15] =
                                                   IF vx > v1[x] THEN 1 ELSE 0]]
          [] m.ins.n = 5 -> [m EXCEPT !.v = WithFlag((vx - vy) % Byte, NoBorrow(vx, vy))]
          [] m.ins.n = 6 -> [m EXCEPT !.v = WithFlag(ShiftSource(vx, vy) \div 2,
                                                   ShiftSource(vx, vy) % 2 = 1)]
          [] m.ins.n = 7 -> [m EXCEPT !.v = WithFlag((vy - vx) % Byte, NoBorrow(vy, vx))]
          [] m.ins.n = 14 -> [m EXCEPT !.v = WithFlag((ShiftSource(vx, vy) * 2) % Byte,
                                                    ShiftSource(vx, vy) \div 128 = 1)]
          [] OTHER -> m

\* an FX0A that does not step pc back when no key is pressed
WaitKey_NoRewind(m) ==
    LET k == FirstKey(m.keypad, 0)
    IN  IF k < NumKeys THEN [m EXCEPT !.v = [m.v EXCEPT ![m.ins.x] = k]]
        ELSE m

\* FX0A
WaitKey(m) ==
    LET k == FirstKey(m.keypad, 0)
    IN  IF k < NumKeys THEN [m EXCEPT !.v = [m.v EXCEPT ![m.ins.x] = k]]
        ELSE [m EXCEPT !.pc = (m.pc - 2) % Word]

\* the index of vm->keypad[vm->v[vm->ins.x]] in EX9E and EXA1
KeyIndex(m) == m.v[m.ins.x]

\* case 0xE of the dispatch
ExecE(m, o) ==
    LET pressed == KeyRead(m, KeyIndex(m), o)
        skip    == [m EXCEPT !.pc = (m.pc + 2) % Word]
    IN  IF m.ins.nn = 158 THEN (IF pressed THEN skip ELSE m)
        ELSE IF m.ins.nn = 161 THEN (IF ~pressed THEN skip ELSE m)
        ELSE m

\* a tens digit of FX33 computed without the reduction modulo 100
Tens_NoMod(x) == x \div 10

\* the three digits FX33 stores: x / 100, x % 100 / 10, x % 10
Hundreds(x) == x \div 100
Tens(x) == (x % 100) \div 10
Ones(x) == x % 10

\* vm->i = vm->v[x] * 5 of FX29
FontAddr(vx) == vx * 5

\* case 0xF of the dispatch
ExecF(m, o) ==
    LET x  == m.ins.x
        vx == m.v[x]
    IN  CASE m.ins.nn = 7   -> [m EXCEPT !.v = [m.v EXCEPT ![x] = m.delay_timer]]
          [] m.ins.nn = 10  -> WaitKey(m)
          [] m.ins.nn = 21  -> [m EXCEPT !.delay_timer = vx]
          [] m.ins.nn = 24  -> [m EXCEPT !.sound_timer = vx]
          [] m.ins.nn = 30  -> [m EXCEPT !.i = (m.i + vx) % Word]
          [] m.ins.nn = 41  -> [m EXCEPT !.i = FontAddr(vx)]
          [] m.ins.nn = 51  -> [m EXCEPT !.ram =
                                  RamWrite(RamWrite(RamWrite(m.ram,
                                      m.i, Hundreds(vx)),
                                      m.i + 1, Tens(vx)),
                                      m.i + 2, Ones(vx))]
          [] m.ins.nn = 85  -> [m EXCEPT !.ram = StoreRegs(m, m.ram, 0)]
          [] m.ins.nn = 101 -> [m EXCEPT !.v = LoadRegs(m, o, m.v, 0)]
          [] OTHER -> m

\* a 7XNN that sets VF to the carry of the addition
Exec7_SetsCarry(m) ==
    LET sum == m.v[m.ins.x] + m.ins.nn
    IN  [m EXCEPT !.v = [[m.v EXCEPT ![m.ins.x] = sum % Byte]
                            EXCEPT ![15] = IF sum >= Byte THEN 1 ELSE 0]]

\* case 0x7 of the dispatch: vm->v[x] += nn
Exec7(m) == [m EXCEPT !.v = [m.v EXCEPT ![m.ins.x] = (m.v[m.ins.x] + m.ins.nn) % Byte]]

\* the switch of run_instruction, on the machine after fetch and decode
Dispatch(m, o) ==
    LET op   == m.ins.opcode \div 4096
        x    == m.ins.x
        y    == m.ins.y
        skip == [m EXCEPT !.pc = (m.pc + 2) % Word]
    IN  CASE op = 0  -> Exec0(m, o)
          [] op = 1  -> [m EXCEPT !.pc = m.ins.nnn]
          [] op = 2  -> Exec2(m, o)
          [] op = 3  -> IF m.v[x] = m.ins.nn THEN skip ELSE m
          [] op = 4  -> IF m.v[x] # m.ins.nn THEN skip ELSE m
          [] op = 5  -> IF m.v[x] = m.v[y] THEN skip ELSE m
          [] op = 6  -> [m EXCEPT !.v = [m.v EXCEPT ![x] = m.ins.nn]]
          [] op = 7  -> Exec7(m)
          [] op = 8  -> Exec8(m)
          [] op = 9  -> IF m.v[x] # m.v[y] THEN skip ELSE m
          [] op = 10 -> [m EXCEPT !.i = m.ins.nnn]
          [] op = 11 -> [m EXCEPT !.pc = m.ins.nnn + m.v[0]]
          [] op = 12 -> [m EXCEPT !.v = [m.v EXCEPT ![x] = BitAnd(o.rnd, m.ins.nn)]]
          [] op = 13 -> DrawSprite(m, o)
          [] op = 14 -> ExecE(m, o)
          [] OTHER   -> ExecF(m, o)

\* run_instruction: fetch, pc += 2, decode, dispatch
RunInstruction(m, o) ==
    Dispatch([m EXCEPT !.ins = Decode(Fetch(m, o)),
                       !.pc = (m.pc + 2) % Word], o)

\* Whether run_instruction on m makes an access the language leaves undefined:
\* a fetch beyond the ram, a push or pop outside the stack, a keypad index
\* above 15, or an I-relative access beyond the ram.
UndefinedAccess(m) ==
    \/ m.pc + 1 >= RamSize
    \/ LET ins == Decode(Fetch(m, NoOracle))
           op  == ins.opcode \div 4096
       IN  \/ op = 0 /\ ins.nn = 238 /\ ~(m.stack_ptr >= 1 /\ m.stack_ptr <= StackSize)
           \/ op = 2 /\ ~(m.stack_ptr >= 0 /\ m.stack_ptr < StackSize)
           \/ op = 13 /\ ins.n > 0 /\ m.i + Min(ins.n, HEIGHT - (m.v[ins.y] % HEIGHT)) - 1 >= RamSize
           \/ op = 14 /\ ins.nn \in {158, 161} /\ m.v[ins.x] >= NumKeys
           \/ op = 15 /\ ins.nn = 51 /\ m.i + 2 >= RamSize
           \/ op = 15 /\ ins.nn \in {85, 101} /\ m.i + ins.x >= RamSize

\* the outcomes to choose from when run_instruction runs on m
OraclesFor(m) ==
    IF UndefinedAccess(m) THEN Oracles
    ELSE IF Decode(Fetch(m, NoOracle)).opcode \div 4096 = 12
         THEN {[NoOracle EXCEPT !.rnd = r] : r \in RandBytes}
         ELSE {NoOracle}

(* ------------------------------------------------------------------ *)
(* update_timers                                                       *)
(* ------------------------------------------------------------------ *)
\* a tick that decrements delay_timer without testing it, wrapping below 0
DelayAfterTick_Wraps(m) == (m.delay_timer - 1) % Byte

\* if (vm->delay_timer > 0) vm->delay_timer--;
DelayAfterTick(m) == IF m.delay_timer > 0 THEN m.delay_timer - 1 ELSE m.delay_timer

\* if (vm->sound_timer > 0) vm->sound_timer--;
SoundAfterTick(m) == IF m.sound_timer > 0 THEN m.sound_timer - 1 ELSE m.sound_timer

\* a tick that decides the tone after the decrement
ToneAfterTick_Late(m) == m.sound_timer > 1

\* SDL_PauseAudioDevice(dev, 0) in the branch vm->sound_timer > 0, and
\* SDL_PauseAudioDevice(dev, 1) in the other: whether the tone plays
ToneAfterTick(m) == m.sound_timer > 0

(* ------------------------------------------------------------------ *)
(* handle_input: the key tables                                        *)
(* ------------------------------------------------------------------ *)
\* The keypad index of each key of the two switch tables, in their order:
\* 1 2 3 4, Q W E R, A S D F, Z X C V.
KeyTable == << 1, 2, 3, 12,  4, 5, 6, 13,  7, 8, 9, 14,  10, 0, 11, 15 >>

\* the keys the modelled input events use
PolledKeys == 1..Min(MaxKeys, Len(KeyTable))

\* case SDL_SCANCODE_SPACE
TogglePause(m) == IF m.state = RUNNING THEN [m EXCEPT !.state = PAUSED]
                  ELSE [m EXCEPT !.state = RUNNING]

(* ------------------------------------------------------------------ *)
(* main: the emulator loop                                             *)
(* ------------------------------------------------------------------ *)
\* config.clock_rate / 60
InsPerSlice == clock_rate \div FrameRate

\* a loop that never tests for QUIT
LoopContinues_Always(m) == TRUE

\* while (vm.state != QUIT)
LoopContinues(m) == m.state # QUIT

\* a loop without the PAUSED test
SkipsSlice_Never(m) == FALSE

\* if (vm.state == PAUSED) continue;
SkipsSlice(m) == m.state = PAUSED

\* an instruction loop that runs once more (i <= ...)
InSlice_OneMore(k) == k <= InsPerSlice

\* the test i < config.clock_rate / 60 of the instruction loop
InSlice(k) == k < InsPerSlice

VARIABLES
    vm,          \* the machine, vm_t
    loc,         \* where main is
    n,           \* the counter i of main's instruction loop
    event,       \* handle_input's event: the type of the event polled last
    polled,      \* how many events this call of handle_input has polled
    rom_file,    \* what the file system holds under the ROM's name
    presented,   \* the frame update_screen presented last
    audio_on,    \* whether the audio device is playing
    hist,        \* history: what the current loop iteration has done
    expected_delay \* history: delay_timer as the cadence rule predicts it

vars == << vm, loc, n, event, polled, rom_file, presented, audio_on, hist,
           expected_delay >>

NoEvent == "NONE"
NoHist == [ran |-> FALSE, ins |-> 0, ticks |-> 0]
Blank == {}

\* main before init_vm: vm_t vm = {0}, nothing presented, the audio device
\* opened and not yet playing.
Init ==
    /\ vm = ZeroVm
    /\ loc = "start"
    /\ n = 0
    /\ event = NoEvent
    /\ polled = 0
    /\ rom_file \in FileIds
    /\ presented = Blank
    /\ audio_on = FALSE
    /\ hist = NoHist
    /\ expected_delay = 0

\* if (!init_vm(&vm, rom_name)) exit(EXIT_FAILURE);
Startup ==
    /\ loc = "start"
    /\ vm' = InitVm(RomFiles[rom_file], ArgvRom)
    /\ loc' = IF InitOk(RomFiles[rom_file], ArgvRom) THEN "top" ELSE "failed"
    /\ UNCHANGED << n, event, polled, rom_file, presented, audio_on, hist,
                    expected_delay >>

\* the loop test; on QUIT the loop ends and main exits
LoopTest ==
    /\ loc = "top"
    /\ loc' = IF LoopContinues(vm) THEN "input" ELSE "exit"
    /\ polled' = 0
    /\ event' = NoEvent
    /\ UNCHANGED << vm, n, rom_file, presented, audio_on, hist, expected_delay >>

\* The environment replaces, removes or restores the ROM file.  The file is
\* read by init_vm only, so the change is placed where the next read can be.
ReplaceRom ==
    /\ loc = "input"
    /\ \E f \in FileIds : f # rom_file /\ rom_file' = f
    /\ UNCHANGED << vm, loc, n, event, polled, presented, audio_on, hist,
                    expected_delay >>

\* SDL_PollEvent returned an event of this type, which left the machine as m
Polled(type, m) ==
    /\ loc = "input"
    /\ polled < MaxEvents
    /\ polled' = polled + 1
    /\ event' = type
    /\ vm' = m
    /\ UNCHANGED << loc, n, rom_file, presented, audio_on, hist >>

\* case SDL_QUIT
EvQuit == Polled("QUIT", [vm EXCEPT !.state = QUIT]) /\ UNCHANGED expected_delay

\* case SDL_SCANCODE_ESCAPE
EvEscape == Polled("ESCAPE", [vm EXCEPT !.state = QUIT]) /\ UNCHANGED expected_delay

\* case SDL_SCANCODE_SPACE
EvSpace == Polled("SPACE", TogglePause(vm)) /\ UNCHANGED expected_delay

\* case SDL_SCANCODE_BACKSPACE: init_vm(vm, vm->rom_name), its result unused.
\* With a null rom_name fopen's argument is invalid: the call fails or the
\* process dies.
EvBackspace ==
    \/ /\ Polled("BACKSPACE", InitVm(RomFiles[rom_file], vm.rom_name))
       /\ expected_delay' = 0
    \/ /\ loc = "input"
       /\ polled < MaxEvents
       /\ vm.rom_name = NullName
       /\ loc' = "crashed"
       /\ UNCHANGED << vm, n, event, polled, rom_file, presented, audio_on, hist,
                       expected_delay >>

\* case SDL_KEYDOWN with one of the 16 mapped scancodes
EvKeyDown ==
    /\ \E k \in PolledKeys :
          Polled("KEYDOWN", [vm EXCEPT !.keypad = [vm.keypad EXCEPT ![KeyTable[k]] = TRUE]])
    /\ UNCHANGED expected_delay

\* case SDL_KEYUP with one of the 16 mapped key symbols
EvKeyUp ==
    /\ \E k \in PolledKeys :
          Polled("KEYUP", [vm EXCEPT !.keypad = [vm.keypad EXCEPT ![KeyTable[k]] = FALSE]])
    /\ UNCHANGED expected_delay

\* the volume keys (they change config only) and every other event
EvOther == Polled("OTHER", vm) /\ UNCHANGED expected_delay

\* SDL_PollEvent returned 0: handle_input returns, and main tests for PAUSED
PollEnd ==
    /\ loc = "input"
    /\ event' = NoEvent
    /\ n' = 0
    /\ IF SkipsSlice(vm)
       THEN loc' = "top" /\ hist' = NoHist
       ELSE loc' = "exec" /\ hist' = [ran |-> TRUE, ins |-> 0, ticks |-> 0]
    /\ UNCHANGED << vm, polled, rom_file, presented, audio_on, expected_delay >>

\* one pass of the instruction loop: run_instruction(&vm)
RunStep ==
    /\ loc = "exec"
    /\ InSlice(n)
    /\ \E o \in OraclesFor(vm) :
          IF UndefinedAccess(vm) /\ o.crash
          THEN /\ loc' = "crashed"
               /\ UNCHANGED << vm, n, hist, expected_delay >>
          ELSE /\ vm' = RunInstruction(vm, o)
               /\ n' = n + 1
               /\ loc' = loc
               /\ hist' = [hist EXCEPT !.ins = hist.ins + 1]
               /\ expected_delay' =
                     IF vm'.ins.opcode \div 4096 = 15 /\ vm'.ins.nn = 21
                     THEN vm'.delay_timer ELSE expected_delay
    /\ UNCHANGED << event, polled, rom_file, presented, audio_on >>

\* if (vm.should_redraw) { update_screen(...); vm.should_redraw = false; }
Redraw ==
    /\ loc = "exec"
    /\ ~InSlice(n)
    /\ loc' = "timers"
    /\ IF vm.should_redraw
       THEN /\ presented' = vm.display
            /\ vm' = [vm EXCEPT !.should_redraw = FALSE]
       ELSE UNCHANGED << vm, presented >>
    /\ UNCHANGED << n, event, polled, rom_file, audio_on, hist, expected_delay >>

\* update_timers(sdl, &vm)
UpdateTimers ==
    /\ loc = "timers"
    /\ vm' = [vm EXCEPT !.delay_timer = DelayAfterTick(vm),
                        !.sound_timer = SoundAfterTick(vm)]
    /\ audio_on' = ToneAfterTick(vm)
    /\ loc' = "top"
    /\ hist' = [hist EXCEPT !.ticks = hist.ticks + 1]
    /\ expected_delay' = Max(expected_delay - 1, 0)
    /\ UNCHANGED << n, event, polled, rom_file, presented >>

Next ==
    \/ Startup
    \/ LoopTest
    \/ ReplaceRom
    \/ EvQuit
    \/ EvEscape
    \/ EvSpace
    \/ EvBackspace
    \/ EvKeyDown
    \/ EvKeyUp
    \/ EvOther
    \/ PollEnd
    \/ RunStep
    \/ Redraw
    \/ UpdateTimers

Spec == Init /\ [][Next]_vars

(* ------------------------------------------------------------------ *)
(* Steps and states the properties speak of                            *)
(* ------------------------------------------------------------------ *)
\* a step in which run_instruction ran
Ran == loc = "exec" /\ loc' = "exec" /\ n' = n + 1

\* a step in which update_timers ran
Ticked == loc = "timers" /\ loc' = "top"

\* a step in which handle_input handled an event of this type
Handled(type) == loc = "input" /\ loc' = "input" /\ polled' = polled + 1 /\ event' = type

\* the machine has a program loaded (no load has failed since)
Loaded == vm.rom_name # NullName

\* the opcode the next run_instruction fetches, when the fetch is in the ram
NextOpcode == RamAt(vm.ram, vm.pc) * 256 + RamAt(vm.ram, vm.pc + 1)

\* everything of the machine but run_state and the keypad
Frame(m) == << m.ram, m.display, m.stack, m.stack_ptr, m.v, m.i, m.pc,
               m.delay_timer, m.sound_timer, m.should_redraw, m.rom_name >>

(* ------------------------------------------------------------------ *)
(* C1                                                                  *)
(* ------------------------------------------------------------------ *)
\* C1: Quit is terminal: once run_state of the loaded machine is QUIT, no
\* later step (an event of the same handle_input batch included) makes it
\* RUNNING or PAUSED again.
C1_QuitIsTerminal ==
    [][(Loaded /\ vm.state = QUIT) => vm'.state = QUIT]_vars

(* ------------------------------------------------------------------ *)
(* C2                                                                  *)
(* ------------------------------------------------------------------ *)
\* C2 as stated: on a loaded machine every instruction and every timer tick
\* runs with run_state RUNNING; none runs once run_state is QUIT.
C2_NothingRunsInQuit ==
    [][((Ran \/ Ticked) /\ Loaded) => vm.state = RUNNING]_vars

\* C2 as amended: QUIT is tested at the top of the loop only.  The slice of
\* the iteration that polled the quit event still runs (run_state is RUNNING
\* or QUIT in it, never PAUSED); the loop body is entered only with run_state
\* other than QUIT, a QUIT at the top ends the loop, and after that nothing
\* runs.
C2_QuitEndsLoopAtTop ==
    /\ [](loc \in {"exec", "timers"} => vm.state \in {RUNNING, QUIT})
    /\ [][(loc = "top" /\ vm.state = QUIT) => loc' = "exit"]_vars
    /\ [][(loc = "top" /\ loc' = "input") => vm.state # QUIT]_vars
    /\ [][loc = "exit" => UNCHANGED vars]_vars

\* the iteration that polled the quit event ran its whole slice and its
\* tick, and then the loop ended
C2_Witness ==
    /\ loc = "exit"
    /\ Loaded
    /\ hist.ran /\ hist.ins = clock_rate \div 60 /\ hist.ticks = 1

(* ------------------------------------------------------------------ *)
(* C3                                                                  *)
(* ------------------------------------------------------------------ *)
\* C3: while run_state is PAUSED no instruction runs, no timer advances and
\* nothing is presented: main is never in the slice with run_state PAUSED,
\* and a step from PAUSED to PAUSED changes at most the keypad.
C3_PausedFreezesMachine ==
    /\ [](loc \in {"exec", "timers"} => vm.state # PAUSED)
    /\ [][(vm.state = PAUSED /\ vm'.state = PAUSED) =>
            /\ Frame(vm') = Frame(vm)
            /\ presented' = presented
            /\ audio_on' = audio_on]_vars

\* a loop iteration was skipped with run_state PAUSED, in the middle of the
\* program: the timers are running and the key wait is reached
C3_Witness ==
    /\ loc = "top"
    /\ vm.state = PAUSED
    /\ ~hist.ran
    /\ vm.delay_timer > 0
    /\ vm.pc = 526

(* ------------------------------------------------------------------ *)
(* C4                                                                  *)
(* ------------------------------------------------------------------ *)
\* the file can be loaded: it is readable and at most max_size bytes long
Loadable(file) == file.readable /\ Len(file.data) >= 1 /\ Len(file.data) <= 4096 - 512

\* m is the machine of a fresh load of these ROM bytes
FreshLoad(m, data) ==
    /\ \A a \in 0..4095 :
          RamAt(m.ram, a) = IF a < 80 THEN font[a + 1]
                            ELSE IF a >= 512 /\ a < 512 + Len(data) THEN data[a - 511]
                            ELSE 0
    /\ \A r \in 0..15 : m.v[r] = 0
    /\ m.i = 0
    /\ m.delay_timer = 0
    /\ m.sound_timer = 0
    /\ m.stack_ptr = 0
    /\ m.display = {}
    /\ m.pc = 512
    /\ m.state = RUNNING

\* C4: a reset event handled with run_state RUNNING or PAUSED while the ROM
\* file is loadable leaves the machine of a fresh load.
C4_ResetIsFreshLoad ==
    [][(Handled("BACKSPACE") /\ vm.state \in {RUNNING, PAUSED}
            /\ Loadable(RomFiles[rom_file]))
         => FreshLoad(vm', RomFiles[rom_file].data)]_vars

(* ------------------------------------------------------------------ *)
(* C5                                                                  *)
(* ------------------------------------------------------------------ *)
\* C5: no instruction is executed on the machine a failed init_vm left.
C5_NoRunAfterFailedLoad == ~(loc = "exec" /\ n > 0 /\ ~Loaded)

(* ------------------------------------------------------------------ *)
(* C6                                                                  *)
(* ------------------------------------------------------------------ *)
\* C6: the load at startup fails only for an unreadable ROM or one longer
\* than 4096 - 0x200 bytes: every readable ROM of 0..3584 bytes is accepted.
C6_LoadAcceptsUpToMax ==
    loc = "failed" =>
        ~(RomFiles[rom_file].readable /\ Len(RomFiles[rom_file].data) <= 4096 - 512)

(* ------------------------------------------------------------------ *)
(* C7                                                                  *)
(* ------------------------------------------------------------------ *)
\* C7: in an iteration that is not skipped, floor(clock_rate / 60)
\* instructions run and then the timers advance once: no tick before the
\* last instruction of the slice, and one tick by the end of the iteration.
C7_SliceThenOneTick ==
    /\ loc = "exec" => hist.ran /\ hist.ticks = 0 /\ hist.ins <= clock_rate \div 60
    /\ loc = "timers" => hist.ran /\ hist.ticks = 0 /\ hist.ins = clock_rate \div 60
    /\ (loc \in {"top", "input", "exit"} /\ hist.ran) =>
           hist.ticks = 1 /\ hist.ins = clock_rate \div 60

\* an iteration has run its 11 instructions and its tick
C7_Witness ==
    /\ loc = "top"
    /\ hist.ran
    /\ hist.ins = 11
    /\ hist.ticks = 1

(* ------------------------------------------------------------------ *)
(* C8                                                                  *)
(* ------------------------------------------------------------------ *)
\* C8: delay_timer follows the cadence rule.  expected_delay is set to the
\* value FX15 stores (and to 0 by a load) and is lowered by 1, not below 0,
\* once per slice run; delay_timer equals it in every state, whatever the
\* instructions of the slices do, the blocked FX0A included.
C8_DelayCadence ==
    /\ vm.delay_timer = expected_delay
    /\ vm.delay_timer \in 0..255

\* blocked in FX0A, the timers set to 3 by the program have been counted
\* down to 0 and a further tick has left delay_timer at 0 (the tone is off
\* only after a tick that found sound_timer at 0)
C8_Witness ==
    /\ loc = "top"
    /\ hist.ran /\ hist.ticks = 1
    /\ vm.ins.opcode = 62218
    /\ vm.pc = 526
    /\ vm.v[0] = 3
    /\ vm.delay_timer = 0
    /\ vm.sound_timer = 0
    /\ ~audio_on

(* ------------------------------------------------------------------ *)
(* C9                                                                  *)
(* ------------------------------------------------------------------ *)
\* C9 as stated: right after a timer tick the tone is on exactly when
\* sound_timer, as the tick left it, is greater than 0.
C9_ToneIsSoundTimerAfterTick ==
    [][Ticked => (audio_on' = (vm'.sound_timer > 0))]_vars

\* C9 as amended: right after a timer tick the tone is on exactly when
\* sound_timer was greater than 0 before that tick decremented it.
C9_ToneIsSoundTimerBeforeTick ==
    [][Ticked => (audio_on' = (vm.sound_timer > 0))]_vars

\* the tick that took sound_timer from 1 to 0 has turned the tone on
C9_Witness ==
    /\ loc = "top"
    /\ hist.ran /\ hist.ticks = 1
    /\ audio_on
    /\ vm.sound_timer = 0

(* ------------------------------------------------------------------ *)
(* C10                                                                 *)
(* ------------------------------------------------------------------ *)
PressedKeys == {k \in 0..15 : vm.keypad[k]}
LowestPressed == CHOOSE k \in PressedKeys : \A j \in PressedKeys : k <= j

\* C10: FX0A with no key pressed leaves pc at the FX0A and changes nothing
\* of the machine; with a key pressed it stores the lowest pressed index in
\* V[x], leaves pc at the next instruction and changes nothing else.
C10_KeyWaitBlocks ==
    [][(Ran /\ vm.pc + 1 < 4096 /\ NextOpcode \div 4096 = 15 /\ NextOpcode % 256 = 10) =>
         IF PressedKeys = {}
         THEN /\ Frame(vm') = Frame(vm)
              /\ vm'.keypad = vm.keypad /\ vm'.state = vm.state
         ELSE /\ vm'.v = [vm.v EXCEPT ![(NextOpcode \div 256) % 16] = LowestPressed]
              /\ vm'.pc = vm.pc + 2
              /\ << vm'.ram, vm'.display, vm'.stack, vm'.stack_ptr, vm'.i >>
                    = << vm.ram, vm.display, vm.stack, vm.stack_ptr, vm.i >>]_vars

\* F30A has run with the keys 1 and 2 both pressed and stored 1 in V3, after
\* slices in which it was blocked (the timers have run down meanwhile)
C10_Witness ==
    /\ vm.ins.opcode = 62218
    /\ vm.pc = 528
    /\ vm.keypad[1] /\ vm.keypad[2]
    /\ vm.v[3] = 1
    /\ vm.delay_timer = 0

(* ------------------------------------------------------------------ *)
(* Test programs: the machine run from a loaded ROM, one instruction   *)
(* at a step, with no input events and no timer ticks in between       *)
(* ------------------------------------------------------------------ *)
\* how many of the machines before the last steps the history keeps
HistLen == 4

\* how many instructions a test program is run for
MaxRun == 24

\* the two bytes of the opcode with these four nibbles
Op(a, b, c, d) == << a * 16 + b, c * 16 + d >>

\* the two bytes of the opcode with this top nibble and this address
OpAddr(a, nnn) == << a * 16 + nnn \div 256, nnn % 256 >>

\* the two bytes of the opcode with this top nibble, register and byte
OpByte(a, x, nn) == << a * 16 + x, nn >>

\* the ROM rom with these bytes placed at the ram address addr
PlaceAt(rom, addr, bytes) ==
    LET at == addr - entry_point
    IN  [k \in 1..Max(Len(rom), at + Len(bytes)) |->
            IF k > at /\ k <= at + Len(bytes) THEN bytes[k - at]
            ELSE IF k <= Len(rom) THEN rom[k] ELSE 0]

\* the last k elements of the sequence s
LastOf(s, k) == IF Len(s) <= k THEN s ELSE SubSeq(s, Len(s) - k + 1, Len(s))

\* main has loaded one of these ROMs and the loop is in its instruction
\* batch; n counts the instructions run and hist holds the machines before
\* the last HistLen of them.
UnitInit(roms) ==
    /\ vm \in {InitVm([readable |-> TRUE, data |-> r], ArgvRom) : r \in roms}
    /\ loc = "unit"
    /\ n = 0
    /\ event = NoEvent
    /\ polled = 0
    /\ rom_file = 0
    /\ presented = Blank
    /\ audio_on = FALSE
    /\ hist = << >>
    /\ expected_delay = 0

\* run_instruction(&vm)
UnitStep ==
    /\ loc = "unit"
    /\ n < MaxRun
    /\ \E o \in OraclesFor(vm) :
          IF UndefinedAccess(vm) /\ o.crash
          THEN loc' = "crashed" /\ UNCHANGED << vm, n, hist >>
          ELSE /\ vm' = RunInstruction(vm, o)
               /\ n' = n + 1
               /\ hist' = LastOf(Append(hist, vm), HistLen)
               /\ loc' = loc
    /\ UNCHANGED << event, polled, rom_file, presented, audio_on, expected_delay >>

\* a step in which run_instruction ran on the machine vm
Stepped == loc = "unit" /\ loc' = "unit"

\* the opcode run_instruction fetches on the machine m (its fetch in the ram)
OpcodeAt(m) == RamAt(m.ram, m.pc) * 256 + RamAt(m.ram, m.pc + 1)
FetchInRam(m) == m.pc + 1 < 4096

\* the machine k instructions back: Back(1) is the machine before the last one
Back(k) == hist[Len(hist) - k + 1]

(* ------------------------------------------------------------------ *)
(* C11                                                                 *)
(* ------------------------------------------------------------------ *)
\* A call at depth d (reached through d calls, each to the next address) to
\* the target t, where a return is; with nested, the target calls t + 4
\* first, where there is another return.  After the call: a jump to itself.
CallRom(d, t, nested) ==
    LET a     == entry_point + 2 * d
        chain == [k \in 1..(2 * d) |->
                     OpAddr(2, entry_point + 2 * ((k + 1) \div 2))[2 - (k % 2)]]
        body  == chain \o OpAddr(2, t) \o OpAddr(1, a + 2)
    IN  IF nested
        THEN PlaceAt(PlaceAt(body, t, OpAddr(2, t + 4) \o Op(0, 0, 14, 14)),
                     t + 4, Op(0, 0, 14, 14))
        ELSE PlaceAt(body, t, Op(0, 0, 14, 14))

\* V0 = 0, then a return with nothing on the stack, then a jump to itself
ReturnRom == OpByte(6, 0, 0) \o Op(0, 0, 14, 14) \o OpAddr(1, entry_point + 4)

CallRoms == {CallRom(d, t, nested) :
                d \in 0..11, t \in {768, 2048}, nested \in BOOLEAN}
            \cup {CallRom(d, 4094, FALSE) : d \in 0..11}
            \cup {ReturnRom}

CallInit == UnitInit(CallRoms)
SpecCall == CallInit /\ [][UnitStep]_vars

IsCall(m) == FetchInRam(m) /\ OpcodeAt(m) \div 4096 = 2 /\ m.stack_ptr \in 0..11
IsReturn(m) == FetchInRam(m) /\ OpcodeAt(m) = 238 /\ m.stack_ptr \in 1..12
Untouched(m1, m2) == << m1.v, m1.ram, m1.display, m1.i >> = << m2.v, m2.ram, m2.display, m2.i >>

\* C11: 2NNN at address a with d < 12 entries on the stack pushes a + 2 and
\* jumps to nnn; 00EE pops into pc; the return that matches a call leaves
\* pc = a + 2 and the depth d, also around a nested call and return; neither
\* changes a register, a memory byte or a display cell.
C11_CallReturnBalance ==
    /\ [][(Stepped /\ IsCall(vm)) =>
            /\ vm'.pc = OpcodeAt(vm) % 4096
            /\ vm'.stack_ptr = vm.stack_ptr + 1
            /\ vm'.stack[vm.stack_ptr] = vm.pc + 2
            /\ \A k \in 0..(vm.stack_ptr - 1) : vm'.stack[k] = vm.stack[k]
            /\ Untouched(vm, vm')]_vars
    /\ [][(Stepped /\ IsReturn(vm)) =>
            /\ vm'.pc = vm.stack[vm.stack_ptr - 1]
            /\ vm'.stack_ptr = vm.stack_ptr - 1
            /\ Untouched(vm, vm')]_vars
    /\ [][(Stepped /\ IsReturn(vm) /\ Len(hist) >= 1 /\ IsCall(Back(1))) =>
            /\ vm'.pc = Back(1).pc + 2
            /\ vm'.stack_ptr = Back(1).stack_ptr]_vars
    /\ [][(Stepped /\ IsReturn(vm) /\ Len(hist) >= 3 /\ IsCall(Back(3))
             /\ IsCall(Back(2)) /\ IsReturn(Back(1))) =>
            /\ Back(1).pc = OpcodeAt(Back(2)) % 4096
            /\ vm.pc = Back(2).pc + 2
            /\ vm'.pc = Back(3).pc + 2
            /\ vm'.stack_ptr = Back(3).stack_ptr]_vars

\* the call at depth 10, with 10 entries on the stack, and the call nested
\* in it, at depth 11, have both returned: pc is after the outer call
C11_Witness ==
    /\ loc = "unit"
    /\ Len(hist) >= 4
    /\ IsCall(Back(4)) /\ IsCall(Back(3)) /\ IsReturn(Back(2)) /\ IsReturn(Back(1))
    /\ Back(3).stack_ptr = 11
    /\ vm.stack_ptr = 10
    /\ vm.pc = 512 + 2 * 10 + 2

(* ------------------------------------------------------------------ *)
(* C12                                                                 *)
(* ------------------------------------------------------------------ *)
\* the sprite the drawing programs keep at SpriteAddr: 15 rows
SpriteAddr == entry_point + 256
SpriteData == << 255, 129, 165, 0, 240, 15, 1, 128, 60, 255, 36, 24, 102, 90, 195 >>

\* where the drawing programs point I: the sprite, the glyph of 8 in the
\* font, and the last 6 bytes of the ram
SpriteSources == {SpriteAddr, 40, 4090}

\* V[x] and V[y] of the drawing programs
DrawXs == {0, 5, 58, 63, 124}
DrawYs == {0, 20, 29, 31, 62}
DrawNs == {0, 1, 5, 15}

\* A program that draws the glyph of 0 at (V2, V3) first when prior is set,
\* then the n rows at src twice in a row at (V[x], V[y]) = (vx, vy), and
\* then jumps to itself.
DrawRom(x, y, vx, vy, nrows, src, prior) ==
    PlaceAt(OpByte(6, 2, vx) \o OpByte(6, 3, vy) \o OpAddr(10, 0)
              \o Op(13, 2, 3, IF prior THEN 5 ELSE 0)
              \o OpByte(6, x, vx) \o OpByte(6, y, vy) \o OpAddr(10, src)
              \o Op(13, x, y, nrows) \o Op(13, x, y, nrows)
              \o OpAddr(1, entry_point + 18),
            SpriteAddr, SpriteData)

DrawRoms == {DrawRom(xy[1], xy[2], vx, vy, nrows, src, prior) :
                xy \in {<< 0, 1 >>, << 15, 1 >>, << 0, 15 >>},
                vx \in DrawXs, vy \in DrawYs, nrows \in DrawNs,
                src \in SpriteSources, prior \in BOOLEAN}

DrawInit == UnitInit(DrawRoms)
SpecDraw == DrawInit /\ [][UnitStep]_vars

\* run_instruction on m fetches a DXYN
IsDraw(m) == FetchInRam(m) /\ OpcodeAt(m) \div 4096 = 13
DrawX(m) == (OpcodeAt(m) \div 256) % 16
DrawY(m) == (OpcodeAt(m) \div 16) % 16
DrawN(m) == OpcodeAt(m) % 16
OriginX(m) == m.v[DrawX(m)] % 64
OriginY(m) == m.v[DrawY(m)] % 32
ColOf(c) == c % 64
RowOf(c) == c \div 64
Flipped(m1, m2) == (m1.display \ m2.display) \cup (m2.display \ m1.display)

\* C12: the only display cells DXYN changes have their column in
\* [ox, min(ox+7, 63)] and their row in [oy, min(oy+n-1, 31)], where
\* ox = V[x] mod 64 and oy = V[y] mod 32, and every cell it leaves lit has an
\* index row*64 + column in 0..2047: the sprite is clipped, never wrapped.
C12_DrawClips ==
    [][(Stepped /\ IsDraw(vm)) =>
          /\ vm'.display \subseteq 0..2047
          /\ \A c \in Flipped(vm, vm') :
                /\ ColOf(c) >= OriginX(vm)
                /\ ColOf(c) <= Min(OriginX(vm) + 7, 63)
                /\ RowOf(c) >= OriginY(vm)
                /\ RowOf(c) <= Min(OriginY(vm) + DrawN(vm) - 1, 31)]_vars

\* a 15-row sprite drawn at (58, 29) has changed cells of the last column
\* and of the last row, and of nothing outside the 6 by 3 corner
C12_Witness ==
    /\ loc = "unit"
    /\ Len(hist) >= 1
    /\ IsDraw(Back(1)) /\ DrawN(Back(1)) = 15
    /\ OriginX(Back(1)) = 58 /\ OriginY(Back(1)) = 29
    /\ \E c \in Flipped(Back(1), vm) : ColOf(c) = 63
    /\ \E c \in Flipped(Back(1), vm) : RowOf(c) = 31

(* ------------------------------------------------------------------ *)
(* C13                                                                 *)
(* ------------------------------------------------------------------ *)
\* the sprite rows the DXYN that m fetches reads are inside the ram
SpriteInRam(m) == ~UndefinedAccess(m)

\* the bits of the sprite a DXYN on m draws: row i, column k from the left
SpriteBit(m, i, k) == Bit(RamAt(m.ram, m.i + i), 7 - k) = 1

\* the (row, column) pairs of the sprite that the DXYN on m does not clip
Targets(m) == {ik \in (0..14) \X (0..7) :
                  /\ ik[1] < DrawN(m)
                  /\ OriginY(m) + ik[1] <= 31
                  /\ OriginX(m) + ik[2] <= 63}
CellOf(m, ik) == (OriginY(m) + ik[1]) * 64 + OriginX(m) + ik[2]

\* C13: after DXYN, VF = 1 exactly when a sprite bit that is 1 and is not
\* clipped targeted a pixel that was on, and VF = 0 otherwise, also for
\* n = 0 and for x or y = F (the origin is read before VF is reset); every
\* targeted pixel ends as its old value XOR the sprite bit.
C13_DrawCollisionFlag ==
    [][(Stepped /\ IsDraw(vm) /\ SpriteInRam(vm)) =>
          /\ vm'.v[15] = IF \E ik \in Targets(vm) :
                               SpriteBit(vm, ik[1], ik[2]) /\ CellOf(vm, ik) \in vm.display
                          THEN 1 ELSE 0
          /\ \A ik \in Targets(vm) :
                (CellOf(vm, ik) \in vm'.display)
                   = ((CellOf(vm, ik) \in vm.display) # SpriteBit(vm, ik[1], ik[2]))]_vars

\* a draw with the origin in VF (58 before the draw) that hit lit pixels and
\* left VF = 1, and a draw with the origin in VF that hit none and left 0
C13_Witness ==
    /\ loc = "unit"
    /\ Len(hist) >= 1
    /\ IsDraw(Back(1)) /\ SpriteInRam(Back(1)) /\ DrawX(Back(1)) = 15
    /\ Back(1).v[15] = 58
    /\ vm.v[15] = 1
    /\ Flipped(Back(1), vm) # {}

C13_WitnessNoCollision ==
    /\ loc = "unit"
    /\ Len(hist) >= 1
    /\ IsDraw(Back(1)) /\ SpriteInRam(Back(1)) /\ DrawX(Back(1)) = 15
    /\ Back(1).v[15] = 58
    /\ vm.v[15] = 0
    /\ Flipped(Back(1), vm) # {}

(* ------------------------------------------------------------------ *)
(* C14                                                                 *)
(* ------------------------------------------------------------------ *)
\* run_instruction on m draws one row of eight set bits
DrawsFullRow(m) ==
    IsDraw(m) /\ SpriteInRam(m) /\ DrawN(m) = 1 /\ RamAt(m.ram, m.i) = 255

\* the last instruction drew a full row on a cleared display and the next
\* one draws a full row at the same origin
SecondFullRowDraw ==
    /\ Stepped
    /\ Len(hist) >= 1
    /\ DrawsFullRow(Back(1)) /\ Back(1).display = {}
    /\ DrawsFullRow(vm)
    /\ OriginX(vm) = OriginX(Back(1)) /\ OriginY(vm) = OriginY(Back(1))

\* the cells of the row of up to 8 pixels that starts at the origin of m
FullRowCells(m) == {OriginY(m) * 64 + c : c \in OriginX(m)..Min(OriginX(m) + 7, 63)}

\* C14 as stated: a row of eight set bits drawn twice at the same origin on a
\* cleared display leaves the display clear, with VF = 1 after the first
\* draw and VF = 1 after the second draw.
C14_FlagSetBothTimes ==
    [][SecondFullRowDraw =>
          /\ vm'.display = {}
          /\ vm.v[15] = 1
          /\ vm'.v[15] = 1]_vars

\* C14: a row of eight set bits drawn twice at the same origin on a cleared
\* display: the first draw turns the row on and leaves VF = 0 (no pixel was
\* on), the second turns every pixel of the row off and leaves VF = 1, and
\* the display is clear after the two draws.
C14_FlagSetBySecondDraw ==
    [][SecondFullRowDraw =>
          /\ vm.display = FullRowCells(Back(1))
          /\ vm.v[15] = 0
          /\ vm'.display = {}
          /\ vm'.v[15] = 1]_vars

\* the two draws of the full row at (5, 20) are done: the first lit 8 pixels
C14_Witness ==
    /\ loc = "unit"
    /\ Len(hist) >= 2
    /\ DrawsFullRow(Back(2)) /\ Back(2).display = {}
    /\ DrawsFullRow(Back(1))
    /\ OriginX(Back(2)) = 5 /\ OriginY(Back(2)) = 20
    /\ OriginX(Back(1)) = 5 /\ OriginY(Back(1)) = 20
    /\ Cardinality(Back(1).display) = 8
    /\ vm.display = {}

(* ------------------------------------------------------------------ *)
(* C20                                                                 *)
(* ------------------------------------------------------------------ *)
\* m2 fetches the DXYN that m1 fetched, with x and y different from F, the
\* same I and the same sprite rows, all of them in the ram
SameDraw(m1, m2) ==
    /\ IsDraw(m1) /\ IsDraw(m2)
    /\ OpcodeAt(m1) = OpcodeAt(m2)
    /\ DrawX(m1) # 15 /\ DrawY(m1) # 15
    /\ m1.i = m2.i
    /\ SpriteInRam(m1) /\ SpriteInRam(m2)
    /\ \A i \in 0..14 : i < DrawN(m1) => RamAt(m1.ram, m1.i + i) = RamAt(m2.ram, m2.i + i)

\* C20: the same DXYN executed twice in a row, with x and y different from F
\* and with I and the sprite bytes unchanged, restores every display cell to
\* its value before the first draw, for clipped origins too.
C20_DrawTwiceRestores ==
    [][(Stepped /\ Len(hist) >= 1 /\ SameDraw(Back(1), vm)) =>
          vm'.display = Back(1).display]_vars

\* 15 rows drawn twice at (58, 29), clipped on both edges, on a display that
\* was not blank: the first draw changed cells, the second restored them
C20_Witness ==
    /\ loc = "unit"
    /\ Len(hist) >= 2
    /\ SameDraw(Back(2), Back(1))
    /\ DrawN(Back(2)) = 15
    /\ OriginX(Back(2)) = 58 /\ OriginY(Back(2)) = 29
    /\ Back(2).display # {}
    /\ Back(1).display # Back(2).display
    /\ vm.display = Back(2).display

(* ------------------------------------------------------------------ *)
(* Programs that load registers and I and run one instruction          *)
(* ------------------------------------------------------------------ *)
\* V[x] = a, V[y] = b, I = addr, then the instruction ins, then two jumps,
\* each to itself (the second is where a skip lands)
OneRom(x, y, a, b, addr, ins) ==
    OpByte(6, x, a) \o OpByte(6, y, b) \o OpAddr(10, addr) \o ins
       \o OpAddr(1, entry_point + 8) \o OpAddr(1, entry_point + 10)

\* the address of the instruction under test in these programs
TestAddr == entry_point + 6

RegPairs == {0, 1, 15} \X {0, 1, 15}
AluValues == {0, 1, 100, 128, 255}

\* 8XY4, 8XY5 and 8XY7 on every pair of the registers 0, 1 and F
AluRoms == {OneRom(xy[1], xy[2], a, b, 0, Op(8, xy[1], xy[2], nib)) :
               xy \in RegPairs, a \in AluValues, b \in AluValues, nib \in {4, 5, 7}}

\* FX33 with I at the sprite area, at the font, at the program itself, at
\* the last three bytes of the ram and one byte further
BcdValues == {0, 9, 10, 99, 100, 156, 255}
BcdAddrs == {768, 0, TestAddr, 4093, 4094}
BcdRoms == {OneRom(x, 1, a, a, addr, OpByte(15, x, 51)) :
               x \in {0, 15}, a \in BcdValues, addr \in BcdAddrs}

\* opcodes outside the opcode table, with V0 = V1 and with V0 # V1
UnknownOps ==
    {Op(5, 0, 1, nib) : nib \in {1, 15}} \cup {Op(9, 0, 1, nib) : nib \in {1, 15}}
    \cup {Op(8, 0, 1, nib) : nib \in {8, 9, 15}}
    \cup {OpByte(14, 0, nn) : nn \in {0, 159, 160, 255}}
    \cup {OpByte(15, 0, nn) : nn \in {0, 8, 22, 52, 86, 102, 255}}
UnknownRoms == {OneRom(0, 1, 3, b, SpriteAddr, ins) : b \in {3, 4}, ins \in UnknownOps}

\* FX29 for values of V[x] below and above 16
FontValues == {0, 5, 15, 16, 31, 255}
FontRoms == {OneRom(x, 1, a, a, SpriteAddr, OpByte(15, x, 41)) :
                x \in {0, 15}, a \in FontValues}

\* jumps to the last byte and to the last two bytes of the ram, directly
\* and with V0 added
JumpRoms == {OneRom(0, 1, a, a, SpriteAddr, OpAddr(top, nnn)) :
                a \in {0, 1, 255}, top \in {1, 11}, nnn \in {4094, 4095}}

\* A glyph is drawn at (5, 5), then a subroutine is called whose first
\* instruction is ins, an opcode of the 0x0 family; jumps to themselves follow
\* the call and ins.
ZeroRom(ins) ==
    OpByte(6, 0, 5) \o OpAddr(10, 0) \o Op(13, 0, 0, 5)
       \o OpAddr(2, entry_point + 10) \o OpAddr(1, entry_point + 8)
       \o ins \o OpAddr(1, entry_point + 12)
ZeroRoms == {ZeroRom(ins) : ins \in {Op(0, 0, 14, 0), Op(0, 0, 14, 14),
                                     Op(0, 1, 14, 0), Op(0, 10, 14, 14),
                                     Op(0, 15, 14, 0), OpAddr(0, entry_point + 12),
                                     OpAddr(0, entry_point + 8)}}

\* 8XY6 and 8XYE on every pair of the registers 0, 1 and F
ShiftRoms == {OneRom(xy[1], xy[2], a, b, 0, Op(8, xy[1], xy[2], nib)) :
                 xy \in RegPairs, a \in AluValues, b \in AluValues, nib \in {6, 14}}

\* instructions that define no flag, run with V0 = a, VF = 7 and I = addr
NoFlagOps ==
    {OpByte(7, 0, 100), OpByte(7, 0, 1), OpByte(6, 0, 9), OpByte(12, 0, 255),
     Op(8, 0, 15, 0), Op(8, 0, 15, 1), Op(8, 0, 15, 2), Op(8, 0, 15, 3),
     OpByte(3, 0, 200), OpByte(4, 0, 200), Op(5, 0, 15, 0), Op(9, 0, 15, 0),
     OpByte(3, 15, 7), OpAddr(10, 291), OpAddr(11, entry_point + 10),
     Op(0, 0, 14, 0), OpByte(14, 0, 158), OpByte(14, 0, 161),
     OpByte(15, 0, 7), OpByte(15, 0, 10), OpByte(15, 0, 21), OpByte(15, 0, 24),
     OpByte(15, 0, 30), OpByte(15, 15, 30), OpByte(15, 0, 41), OpByte(15, 0, 51),
     OpByte(15, 0, 85), OpByte(15, 15, 85), OpByte(15, 0, 101), OpByte(15, 14, 101)}
NoFlagRoms == {OneRom(0, 15, a, 7, addr, ins) :
                  a \in {0, 5, 200, 255}, addr \in {0, 4095}, ins \in NoFlagOps}

\* V0 = a, V1 = b, VF = c, I = addr, then FX55, then V0 and VF are
\* overwritten, then FX65 with the same x, then a jump to itself
BlockRom(x, a, b, c, addr) ==
    OpByte(6, 0, a) \o OpByte(6, 1, b) \o OpByte(6, 15, c) \o OpAddr(10, addr)
       \o OpByte(15, x, 85) \o OpByte(6, 0, 238) \o OpByte(6, 15, 221)
       \o OpByte(15, x, 101) \o OpAddr(1, entry_point + 16)
BlockRoms == {BlockRom(x, a, b, c, addr) :
                 x \in {0, 1, 2, 15}, a \in {0, 17, 255}, b \in {0, 34}, c \in {0, 51},
                 addr \in {0, SpriteAddr, 4080, 4093}}

OpsRoms == AluRoms \cup BcdRoms \cup UnknownRoms \cup FontRoms \cup JumpRoms
           \cup ZeroRoms \cup ShiftRoms \cup NoFlagRoms \cup BlockRoms

OpsInit == UnitInit(OpsRoms)
SpecOps == OpsInit /\ [][UnitStep]_vars

(* ------------------------------------------------------------------ *)
(* C15                                                                 *)
(* ------------------------------------------------------------------ *)
\* run_instruction on m fetches 8XYN with this last nibble
IsAlu(m, nib) ==
    FetchInRam(m) /\ OpcodeAt(m) \div 4096 = 8 /\ OpcodeAt(m) % 16 = nib

\* the registers after an 8XYN that leaves res in V[x] and then flag in VF
AluResult(m, res, flag) ==
    [r \in 0..15 |-> IF r = 15 THEN (IF flag THEN 1 ELSE 0)
                     ELSE IF r = DrawX(m) THEN res
                     ELSE m.v[r]]

C15_WitnessReverse ==
    /\ loc = "unit"
    /\ Len(hist) >= 1
    /\ IsAlu(Back(1), 7) /\ DrawX(Back(1)) = 0 /\ DrawY(Back(1)) = 1
    /\ Back(1).v[0] = 255 /\ Back(1).v[1] = 1
    /\ vm.v[0] = 2 /\ vm.v[15] = 0

(* ------------------------------------------------------------------ *)
(* C16                                                                 *)
(* ------------------------------------------------------------------ *)
\* run_instruction on m fetches FXNN with this low byte
IsF(m, nn) == FetchInRam(m) /\ OpcodeAt(m) \div 4096 = 15 /\ OpcodeAt(m) % 256 = nn

\* C16: FX33 with I, I+1 and I+2 inside the memory leaves three decimal
\* digits there, 100*memory[I] + 10*memory[I+1] + memory[I+2] = V[x], and
\* changes neither I, nor a register, nor any other memory byte.
C16_BcdDigits ==
    [][(Stepped /\ IsF(vm, 51) /\ vm.i + 2 <= 4095) =>
          LET d0 == RamAt(vm'.ram, vm.i)
              d1 == RamAt(vm'.ram, vm.i + 1)
              d2 == RamAt(vm'.ram, vm.i + 2)
          IN  /\ d0 \in 0..9 /\ d1 \in 0..9 /\ d2 \in 0..9
              /\ 100 * d0 + 10 * d1 + d2 = vm.v[DrawX(vm)]
              /\ vm'.i = vm.i
              /\ vm'.v = vm.v
              /\ \A a \in 0..4095 :
                    a \notin {vm.i, vm.i + 1, vm.i + 2} =>
                       RamAt(vm'.ram, a) = RamAt(vm.ram, a)]_vars

\* FX33 has stored 1, 5, 6 for V[x] = 156 in the last three bytes of the ram
C16_Witness ==
    /\ loc = "unit"
    /\ Len(hist) >= 1
    /\ IsF(Back(1), 51) /\ Back(1).i = 4093
    /\ Back(1).v[DrawX(Back(1))] = 156
    /\ RamAt(vm.ram, 4093) = 1 /\ RamAt(vm.ram, 4094) = 5 /\ RamAt(vm.ram, 4095) = 6

(* ------------------------------------------------------------------ *)
(* C17                                                                 *)
(* ------------------------------------------------------------------ *)
\* the opcode run_instruction fetches on m is an 8XYN, EXNN or FXNN that the
\* opcode table does not list
IsUnlisted(m) ==
    /\ FetchInRam(m)
    /\ LET op == OpcodeAt(m) \div 4096
           nn == OpcodeAt(m) % 256
       IN  \/ op = 8 /\ nn % 16 \notin (0..7) \cup {14}
           \/ op = 14 /\ nn \notin {158, 161}
           \/ op = 15 /\ nn \notin {7, 10, 21, 24, 30, 41, 51, 85, 101}

\* the opcode run_instruction fetches on m is a 5XYN or a 9XYN with N # 0
IsSkipWithNibble(m) ==
    FetchInRam(m) /\ OpcodeAt(m) \div 4096 \in {5, 9} /\ OpcodeAt(m) % 16 # 0

\* the step changed nothing in the machine but the decoded instruction, and
\* pc, by 2
OnlyAdvanced == vm' = [vm EXCEPT !.pc = vm.pc + 2, !.ins = vm'.ins]

\* C17: every opcode outside the opcode table (5XYN and 9XYN with N # 0, and
\* the 8XYN, EXNN and FXNN the table does not list) changes nothing except
\* pc, which advances by exactly 2.
C17_UnknownIsNoOp ==
    [][(Stepped /\ (IsUnlisted(vm) \/ IsSkipWithNibble(vm))) => OnlyAdvanced]_vars

\* the part of C17 the code keeps: unlisted 8XYN, EXNN and FXNN only advance pc
C17_UnlistedIsNoOp ==
    [][(Stepped /\ IsUnlisted(vm)) => OnlyAdvanced]_vars

\* 5011 has run with V0 = V1 and pc is 4 beyond it
C17_SkipTaken ==
    /\ loc = "unit"
    /\ Len(hist) >= 1
    /\ IsSkipWithNibble(Back(1)) /\ OpcodeAt(Back(1)) = 20497
    /\ Back(1).v[0] = Back(1).v[1]
    /\ vm.pc = Back(1).pc + 4

(* ------------------------------------------------------------------ *)
(* C18                                                                 *)
(* ------------------------------------------------------------------ *)
\* the addresses where the 16 glyphs of the font start
GlyphStarts == {5 * g : g \in 0..15}

\* C18: FX29 sets I = (V[x] & 0xF) * 5 for every V[x] in 0..255, so that I
\* is afterwards the start address of one of the 16 glyphs.
C18_FontGlyphAddress ==
    [][(Stepped /\ IsF(vm, 41)) =>
          /\ vm'.i = (vm.v[DrawX(vm)] % 16) * 5
          /\ vm'.i \in GlyphStarts]_vars

\* FX29 has run with V[x] = 16 and I is 80, the first byte after the font
C18_PastTheFont ==
    /\ loc = "unit"
    /\ Len(hist) >= 1
    /\ IsF(Back(1), 41)
    /\ Back(1).v[DrawX(Back(1))] = 16
    /\ vm.i = 80

(* ------------------------------------------------------------------ *)
(* C19                                                                 *)
(* ------------------------------------------------------------------ *)
\* C19: in every state reachable from a loaded ROM the opcode fetch reads
\* ram[pc] and ram[pc+1] with pc + 1 <= 4095: jumps, returns, skips and the
\* sequential advance never move pc outside the 4096 bytes of the memory.
C19_FetchInsideRam == (loc = "unit") => vm.pc + 1 <= 4095

\* 1FFF has run: the next fetch is at 0xFFF and reads ram[0x1000]
C19_JumpedToLastByte ==
    /\ loc = "unit"
    /\ Len(hist) >= 1
    /\ OpcodeAt(Back(1)) = 8191
    /\ vm.pc = 4095
    /\ UndefinedAccess(vm)

(* ------------------------------------------------------------------ *)
(* C21                                                                 *)
(* ------------------------------------------------------------------ *)
\* run_instruction on m fetches a 0NNN that is neither 00E0 nor 00EE
IsMachineCall(m) ==
    FetchInRam(m) /\ OpcodeAt(m) \div 4096 = 0 /\ OpcodeAt(m) \notin {224, 238}

\* C21: every opcode 0NNN other than the exact 00E0 and 00EE (0x01E0 and
\* 0x0AEE for example) sets pc = nnn and changes neither the display nor
\* the stack; only 00E0 clears and only 00EE returns.
C21_ZeroFamilyExact ==
    [][(Stepped /\ IsMachineCall(vm)) =>
          /\ vm'.pc = OpcodeAt(vm) % 4096
          /\ vm'.display = vm.display
          /\ vm'.stack = vm.stack
          /\ vm'.stack_ptr = vm.stack_ptr]_vars

\* 0x01E0 has run on a display with lit pixels: the display is blank and pc
\* is after the opcode, not at 0x1E0
C21_ClearedBy01E0 ==
    /\ loc = "unit"
    /\ Len(hist) >= 1
    /\ IsMachineCall(Back(1)) /\ OpcodeAt(Back(1)) = 480
    /\ Back(1).display # {}
    /\ vm.display = {}
    /\ vm.pc = Back(1).pc + 2

\* 0x0AEE has run with one entry on the stack: it has returned
C21_ReturnedBy0AEE ==
    /\ loc = "unit"
    /\ Len(hist) >= 1
    /\ IsMachineCall(Back(1)) /\ OpcodeAt(Back(1)) = 2798
    /\ Back(1).stack_ptr = 1
    /\ vm.stack_ptr = 0
    /\ vm.pc = Back(1).stack[0]

(* ------------------------------------------------------------------ *)
(* C22                                                                 *)
(* ------------------------------------------------------------------ *)
\* C22: for all x, y and values, 8XY6 leaves V[x] = old V[x] div 2 and
\* VF = bit 0 of the old V[x]; 8XYE leaves V[x] = (2 * old V[x]) mod 256 and
\* VF = bit 7 of the old V[x]. V[y] is neither read nor written, and with
\* x = F, VF ends as the bit shifted out.
C22_ShiftsUseVxOnly ==
    [][LET vx == vm.v[DrawX(vm)]
       IN  /\ (Stepped /\ IsAlu(vm, 6)) =>
                 vm'.v = AluResult(vm, vx \div 2, vx % 2 = 1)
           /\ (Stepped /\ IsAlu(vm, 14)) =>
                 vm'.v = AluResult(vm, (2 * vx) % 256, vx >= 128)]_vars

\* 801E has run with V0 = 255 and V1 = 1: V0 = 254, VF = 1 and V1 is still
\* 1; 8F16 has run with VF = 1 (V1 = 0) and VF is the bit shifted out, 1
C22_Witness ==
    /\ loc = "unit"
    /\ Len(hist) >= 1
    /\ IsAlu(Back(1), 14) /\ DrawX(Back(1)) = 0 /\ DrawY(Back(1)) = 1
    /\ Back(1).v[0] = 255 /\ Back(1).v[1] = 1
    /\ vm.v[0] = 254 /\ vm.v[1] = 1 /\ vm.v[15] = 1

C22_WitnessFlagRegister ==
    /\ loc = "unit"
    /\ Len(hist) >= 1
    /\ IsAlu(Back(1), 6) /\ DrawX(Back(1)) = 15 /\ DrawY(Back(1)) = 1
    /\ Back(1).v[15] = 1 /\ Back(1).v[1] = 0
    /\ vm.v[15] = 1

(* ------------------------------------------------------------------ *)
(* C23                                                                 *)
(* ------------------------------------------------------------------ *)
\* the instruction run_instruction fetches on m defines a flag: 8XY4, 8XY5,
\* 8XY6, 8XY7, 8XYE or DXYN
DefinesFlag(m) ==
    \/ OpcodeAt(m) \div 4096 = 13
    \/ OpcodeAt(m) \div 4096 = 8 /\ OpcodeAt(m) % 16 \in {4, 5, 6, 7, 14}

\* the instruction run_instruction fetches on m has V[x] as its destination
\* (FX65 has V0..V[x])
WritesVx(m) ==
    LET op == OpcodeAt(m) \div 4096
    IN  \/ op \in {6, 7, 12}
        \/ op = 8 /\ OpcodeAt(m) % 16 \in 0..3
        \/ op = 15 /\ OpcodeAt(m) % 256 \in {7, 10, 101}

\* C23: an instruction other than 8XY4, 8XY5, 8XY6, 8XY7, 8XYE and DXYN
\* leaves VF unchanged unless VF is its destination register (x = F); 7XNN
\* that wraps past 255, 8XY1, 8XY2, 8XY3 and FX1E that overflows I do not
\* touch VF.
C23_OnlyFlagOpsWriteVF ==
    [][(Stepped /\ FetchInRam(vm) /\ ~UndefinedAccess(vm) /\ ~DefinesFlag(vm)
          /\ ~(WritesVx(vm) /\ DrawX(vm) = 15)) =>
             vm'.v[15] = vm.v[15]]_vars

\* 7064 has run with V0 = 200 and VF = 7: V0 wrapped to 44, VF is still 7;
\* F01E has run with I = 4095 and V0 = 255: I = 4350, VF is still 7
C23_Witness ==
    /\ loc = "unit"
    /\ Len(hist) >= 1
    /\ OpcodeAt(Back(1)) = 28772
    /\ Back(1).v[0] = 200 /\ Back(1).v[15] = 7
    /\ vm.v[0] = 44 /\ vm.v[15] = 7

C23_WitnessIndexOverflow ==
    /\ loc = "unit"
    /\ Len(hist) >= 1
    /\ IsF(Back(1), 30)
    /\ Back(1).i = 4095 /\ Back(1).v[DrawX(Back(1))] = 255 /\ Back(1).v[15] = 7
    /\ vm.i = 4350 /\ vm.v[15] = 7

(* ------------------------------------------------------------------ *)
(* C24                                                                 *)
(* ------------------------------------------------------------------ *)
\* the bytes I .. I+x that the FX55 or FX65 on m addresses are in the ram
BlockInRam(m) == m.i + DrawX(m) <= 4095

\* C24: FX55 writes exactly memory[I+i] = V[i] for i in 0..x and no other
\* byte; FX65 sets exactly V[i] = memory[I+i] for i in 0..x and no register
\* above x; both leave I unchanged; FX55 followed by FX65 with the same x and
\* I restores V0..Vx even if those registers were overwritten in between.
C24_BlockStoreLoad ==
    [][/\ (Stepped /\ IsF(vm, 85) /\ BlockInRam(vm)) =>
             /\ \A a \in 0..4095 :
                   RamAt(vm'.ram, a) = IF a >= vm.i /\ a <= vm.i + DrawX(vm)
                                       THEN vm.v[a - vm.i]
                                       ELSE RamAt(vm.ram, a)
             /\ vm'.i = vm.i
             /\ vm'.v = vm.v
       /\ (Stepped /\ IsF(vm, 101) /\ BlockInRam(vm)) =>
             /\ \A r \in 0..15 :
                   vm'.v[r] = IF r <= DrawX(vm) THEN RamAt(vm.ram, vm.i + r)
                              ELSE vm.v[r]
             /\ vm'.i = vm.i
             /\ vm'.ram = vm.ram
       /\ (Stepped /\ IsF(vm, 101) /\ BlockInRam(vm) /\ Len(hist) >= 3
             /\ IsF(Back(3), 85) /\ DrawX(Back(3)) = DrawX(vm)
             /\ Back(3).i = vm.i /\ Back(2).ram = vm.ram) =>
             \A r \in 0..DrawX(vm) : vm'.v[r] = Back(3).v[r]]_vars

\* FF55 and FF65 at I = 4080 with V0 and VF overwritten in between: the load
\* has put 17 back into V0 and 51 into VF
C24_Witness ==
    /\ loc = "unit"
    /\ Len(hist) >= 4
    /\ IsF(Back(4), 85) /\ DrawX(Back(4)) = 15 /\ Back(4).i = 4080
    /\ Back(4).v[0] = 17 /\ Back(4).v[15] = 51
    /\ IsF(Back(1), 101) /\ DrawX(Back(1)) = 15
    /\ Back(1).v[0] = 238 /\ Back(1).v[15] = 221
    /\ vm.v[0] = 17 /\ vm.v[15] = 51

(* ------------------------------------------------------------------ *)
(* C25                                                                 *)
(* ------------------------------------------------------------------ *)
\* run_instruction on m fetches a 2NNN; a 00EE (by its low byte, C21)
FetchesCall(m) == FetchInRam(m) /\ OpcodeAt(m) \div 4096 = 2
FetchesReturn(m) == FetchInRam(m) /\ OpcodeAt(m) \div 4096 = 0 /\ OpcodeAt(m) % 256 = 238

\* C25: in every state reachable from a loaded ROM the stack-pointer index
\* is between 0 and 12, 2NNN is never executed with 12 entries on the stack
\* and 00EE is never executed with an empty stack.
C25_StackWithinCapacity ==
    (loc = "unit" /\ n < MaxRun) =>
        /\ vm.stack_ptr \in 0..12
        /\ ~(FetchesCall(vm) /\ vm.stack_ptr = 12)
        /\ ~(FetchesReturn(vm) /\ vm.stack_ptr = 0)

\* twelve calls deep, the next instruction is a thirteenth call
C25_CallOnFullStack ==
    loc = "unit" /\ n = 12 /\ FetchesCall(vm) /\ vm.stack_ptr = 12

\* the second instruction of the ROM is a return, and nothing was called
C25_ReturnOnEmptyStack ==
    loc = "unit" /\ n = 1 /\ FetchesReturn(vm) /\ vm.stack_ptr = 0

(* ------------------------------------------------------------------ *)
(* C26                                                                 *)
(* ------------------------------------------------------------------ *)
\* run_instruction on m fetches EX9E or EXA1
IsKeySkip(m) ==
    FetchInRam(m) /\ OpcodeAt(m) \div 4096 = 14 /\ OpcodeAt(m) % 256 \in {158, 161}

\* the keypad index the key skip on m reads, once m.ins is decoded
KeyIndexAt(m) == KeyIndex([m EXCEPT !.ins = Decode(OpcodeAt(m))])

\* C26: for every value of V[x], EX9E and EXA1 read a keypad entry with an
\* index in 0..15 and skip (pc += 2 more) exactly according to that entry.
C26_KeySkipInsideKeypad ==
    [][(Stepped /\ IsKeySkip(vm)) =>
          /\ KeyIndexAt(vm) \in 0..15
          /\ vm'.pc = vm.pc + (IF vm.keypad[KeyIndexAt(vm)] = (OpcodeAt(vm) % 256 = 158)
                               THEN 4 ELSE 2)]_vars

\* E09E has run with V0 = 200: it read keypad[200], past the 16 entries
C26_ReadPastKeypad ==
    /\ loc = "unit"
    /\ Len(hist) >= 1
    /\ IsKeySkip(Back(1)) /\ KeyIndexAt(Back(1)) = 200
    /\ UndefinedAccess(Back(1))

(* ------------------------------------------------------------------ *)
(* C27                                                                 *)
(* ------------------------------------------------------------------ *)
\* C27: at the end of every loop iteration that was not paused (after its
\* update_timers) the frame last presented to the window equals the display
\* framebuffer.
C27_PresentedTracksDisplay ==
    [][Ticked => presented' = vm'.display]_vars

\* a reset has loaded a ROM that draws nothing: the loop iteration is over,
\* the machine runs, the framebuffer is blank and not marked for a redraw,
\* and the window still shows the frame of the program before the reset
C27_StaleFrameAfterReset ==
    /\ loc = "top"
    /\ Loaded /\ vm.state = RUNNING
    /\ hist.ticks > 0
    /\ vm.display = {} /\ ~vm.should_redraw
    /\ presented # {}

====
